---- MODULE Spec2Model ----
(***************************************************************************)
(* Janus scheduler: a tick-driven simulation of performance and efficiency *)
(* cores running CPU-bound and I/O-bound tasks under a rule-based          *)
(* scheduler (src/components.py, src/scheduler.py, src/main.py).           *)
(*                                                                         *)
(* Representation of the program's floats, all of which are multiples of   *)
(* 0.1 or 0.5 in the source:                                               *)
(*   temperature, heat, cooling, max_temp : tenths of a degree             *)
(*   power_draw, idle_power_draw, total_power_consumed : tenths of a unit  *)
(*   cycles_done, total_cycles, speeds : half cycles (speed 0.5 is 1)      *)
(* A task is its 1-based index in `tasks` (Task.id + 1); 0 is None.        *)
(* A core is its 1-based index in all_cores (CPUCore.id + 1).              *)
(***************************************************************************)
EXTENDS Integers, Sequences, FiniteSets, TLC

VARIABLES
    num_p_cores,          \* SoC.__init__ argument num_p_cores
    num_e_cores,          \* SoC.__init__ argument num_e_cores
    num_tasks,            \* SoC.__init__ argument num_tasks (NUM_TASKS in main)
    tasks,                \* the Task objects, by index
    master_task_list,     \* SoC.master_task_list, task indices
    task_queue,           \* SoC.task_queue
    completed_tasks,      \* SoC.completed_tasks
    current_task,         \* CPUCore.current_task per core, 0 = None
    temperature,          \* CPUCore.temperature per core, tenths
    current_tick,         \* SoC.current_tick
    total_power_consumed, \* SoC.total_power_consumed, tenths
    assign_log,           \* the assignments printed by the latest schedule_rule_based
    pc                    \* position of main / run_simulation_tick

vars == <<num_p_cores, num_e_cores, num_tasks, tasks, master_task_list,
          task_queue, completed_tasks, current_task, temperature,
          current_tick, total_power_consumed, assign_log, pc>>

----------------------------------------------------------------------------
(* Bounds of the model *)

\* largest performance-core count passed to the constructor
MaxPCores == 1
\* largest efficiency-core count passed to the constructor
MaxECores == 1
\* largest task count passed to the constructor
MaxTasks == 2
\* tick budget of the caller (MAX_TICKS of main, scaled down) for a workload
\* with an I/O-bound task
MaxTicks == 122
\* tick budget for a workload of CPU-bound tasks only, which makes no random
\* draw: long enough for an efficiency core to heat up to the threshold
LongTicks == 345
\* a random draw can start an I/O wait only while the task has done fewer
\* than this many (whole) cycles; later draws come out >= io_frequency
MaxIoCycles == 1

\* negative counts passed to the constructor (nothing in the source rejects them)
NegativeCounts == {-1}

\* whole cycles to the model's half cycles
Cycles(n) == 2 * n

\* values of random.randint(200, 500) and random.randint(50, 100) explored
CpuTotalCycles == {330}
IoTotalCycles == {51}
\* values of random.randint(3, 8) explored
IoFrequencies == {3}
\* values of random.randint(0, num_tasks * 5) explored
ArrivalChoices == {0, 2}
\* values of random.randint(1, 100) explored
RandDraws == {1, 100}
\* values of random.randint(5, 10) explored
WaitTimes == {5, 10}

----------------------------------------------------------------------------
(* range(n) of Python: empty for n <= 0 *)
RangeLen(n) == IF n > 0 THEN n ELSE 0

NumCores == RangeLen(num_p_cores) + RangeLen(num_e_cores)
Cores == 1..NumCores

(* CPUCore.__init__ *)
CoreType(c) == IF c <= RangeLen(num_p_cores) THEN "P-core" ELSE "E-core"
BaseSpeed(c) == IF CoreType(c) = "P-core" THEN Cycles(2) ELSE Cycles(1)
PowerDraw(c) == IF CoreType(c) = "P-core" THEN 40 ELSE 10
HeatGeneration(c) == IF CoreType(c) = "P-core" THEN 8 ELSE 2
IdlePowerDraw == 1
StartTemperature == 250
MaxTemp == 900
CoolingFactor == 4
AmbientFloor == 250

(* Task.__init__ *)
NewTasks(n) ==
    { [type |-> "CPU-Bound", total_cycles |-> Cycles(tc), io_frequency |-> 0,
       arrival_time |-> a, cycles_done |-> 0, io_wait_timer |-> 0] :
         tc \in CpuTotalCycles, a \in {x \in ArrivalChoices : x <= n * 5} }
    \cup
    { [type |-> "I/O-Bound", total_cycles |-> Cycles(p[1]), io_frequency |-> p[2],
       arrival_time |-> a, cycles_done |-> 0, io_wait_timer |-> 0] :
         p \in IoTotalCycles \X IoFrequencies,
         a \in {x \in ArrivalChoices : x <= n * 5} }

\* is_finished with a strict comparison
is_finished_strict(t) == t.cycles_done > t.total_cycles

(* Task.is_finished *)
is_finished(t) == t.cycles_done >= t.total_cycles

\* is_waiting_for_io with the comparison turned round
is_waiting_for_io_negative(t) == t.io_wait_timer < 0

(* Task.is_waiting_for_io *)
is_waiting_for_io(t) == t.io_wait_timer > 0

(* Task.work: draw = [r |-> randint(1, 100), d |-> randint(5, 10)] *)
work(t, cycles_to_do, draw) ==
    IF is_waiting_for_io(t)
    THEN [t EXCEPT !.io_wait_timer = @ - 1]
    ELSE LET w == [t EXCEPT !.cycles_done = @ + cycles_to_do]
         IN IF w.type = "I/O-Bound" /\ draw.r < w.io_frequency
            THEN [w EXCEPT !.io_wait_timer = draw.d]
            ELSE w

----------------------------------------------------------------------------
(* list.sort(key=arrival_time) of generate_tasks: stable insertion *)
RECURSIVE InsertByArrival(_, _, _)
InsertByArrival(ts, sorted, i) ==
    IF sorted = <<>> THEN <<i>>
    ELSE IF ts[Head(sorted)].arrival_time <= ts[i].arrival_time
         THEN <<Head(sorted)>> \o InsertByArrival(ts, Tail(sorted), i)
         ELSE <<i>> \o sorted

RECURSIVE SortByArrival(_, _)
SortByArrival(ts, n) ==
    IF n = 0 THEN <<>>
    ELSE InsertByArrival(ts, SortByArrival(ts, n - 1), n)

\* generate_tasks without the sort: the tasks in the order of their creation
generate_tasks_unsorted(ts) == [i \in 1..Len(ts) |-> i]

(* SoC.generate_tasks: the sorted master list of the generated tasks *)
generate_tasks(ts) == SortByArrival(ts, Len(ts))

----------------------------------------------------------------------------
(* SoC.check_for_new_arrivals: the number of tasks popped off the master   *)
(* list at tick `tick`, front first                                        *)
RECURSIVE ArrivedCount(_, _, _)
ArrivedCount(ts, master, tick) ==
    IF master # <<>> /\ ts[Head(master)].arrival_time <= tick
    THEN 1 + ArrivedCount(ts, Tail(master), tick)
    ELSE 0

----------------------------------------------------------------------------
(* schedule_rule_based, lines 59-70: the first task of the queue of the    *)
(* type the core prefers, 0 when there is none                             *)
PreferredType(c) == IF CoreType(c) = "P-core" THEN "CPU-Bound" ELSE "I/O-Bound"

RECURSIVE FirstOfType(_, _, _)
FirstOfType(ts, queue, type) ==
    IF queue = <<>> THEN 0
    ELSE IF ts[Head(queue)].type = type THEN Head(queue)
         ELSE FirstOfType(ts, Tail(queue), type)

\* TaskToAssign without rule 2: None (0) when no task has the preferred type
TaskToAssign_preferred(ts, queue, c) == FirstOfType(ts, queue, PreferredType(c))

\* TaskToAssign without rule 1: always the front of the queue
TaskToAssign_front(ts, queue, c) == queue[1]

(* schedule_rule_based, lines 55-74: task_to_assign; the queue is not empty *)
TaskToAssign(ts, queue, c) ==
    LET best == FirstOfType(ts, queue, PreferredType(c))
    IN IF best # 0 THEN best ELSE queue[1]

\* Remove that leaves the assigned task in the queue
Remove_nothing(queue, t) == queue

(* list.remove: drops the first occurrence *)
RECURSIVE Remove(_, _)
Remove(queue, t) ==
    IF queue = <<>> THEN <<>>
    ELSE IF Head(queue) = t THEN Tail(queue)
         ELSE <<Head(queue)>> \o Remove(Tail(queue), t)

\* a reclaim that takes whatever task the core holds, finished or not
Reclaim_any(ts, s, c) ==
    IF s.current[c] # 0
    THEN [s EXCEPT !.completed = Append(@, s.current[c]), !.current[c] = 0]
    ELSE s

(* schedule_rule_based, lines 49-52: reclaim core c when its task finished *)
Reclaim(ts, s, c) ==
    IF s.current[c] # 0 /\ is_finished(ts[s.current[c]])
    THEN [s EXCEPT !.completed = Append(@, s.current[c]), !.current[c] = 0]
    ELSE s

(* CPUCore.assign_task *)
assign_task(current, c, t) == [current EXCEPT ![c] = t]

(* schedule_rule_based, lines 54-80: give idle core c a task of the queue *)
Assign(ts, s, c) ==
    IF s.current[c] = 0 /\ s.queue # <<>>
    THEN LET t == TaskToAssign(ts, s.queue, c)
         IN IF t # 0
            THEN [s EXCEPT !.queue = Remove(@, t),
                           !.current = assign_task(@, c, t),
                           !.log = Append(@, [core |-> c, task |-> t,
                                              queue |-> s.queue,
                                              previous |-> s.current[c]])]
            ELSE s
    ELSE s

\* the loop over the cores c..n taken from the last core to the first
RECURSIVE ScheduleFrom_reverse(_, _, _, _)
ScheduleFrom_reverse(ts, s, c, n) ==
    IF c > n THEN s
    ELSE ScheduleFrom_reverse(ts, Assign(ts, Reclaim(ts, s, n), n), c, n - 1)

(* schedule_rule_based, lines 48-80: the loop over all_cores from core c on *)
RECURSIVE ScheduleFrom(_, _, _, _)
ScheduleFrom(ts, s, c, n) ==
    IF c > n THEN s
    ELSE ScheduleFrom(ts, Assign(ts, Reclaim(ts, s, c), c), c + 1, n)

(* SoC.schedule_rule_based on s = [queue, completed, current, log] *)
schedule_rule_based(ts, s, n) ==
    IF s.queue = <<>> THEN s
    ELSE ScheduleFrom(ts, s, 1, n)

----------------------------------------------------------------------------
\* get_current_speed without the throttle
get_current_speed_full(c, temp) == BaseSpeed(c)

(* CPUCore.get_current_speed at temperature temp *)
get_current_speed(c, temp) ==
    IF temp >= MaxTemp THEN BaseSpeed(c) \div 2 ELSE BaseSpeed(c)

\* is_active that forgets the I/O wait
IsActive_bound(ts, t) == t # 0

(* is_active of get_current_power_draw and update_temperature: t is the    *)
(* core's current task index, 0 when it has none                           *)
IsActive(ts, t) == t # 0 /\ ~is_waiting_for_io(ts[t])

\* get_current_power_draw that takes every core for active
get_current_power_draw_active(ts, c, t) == PowerDraw(c)

(* CPUCore.get_current_power_draw *)
get_current_power_draw(ts, c, t) ==
    IF IsActive(ts, t) THEN PowerDraw(c) ELSE IdlePowerDraw

(* max of Python *)
Max(a, b) == IF a >= b THEN a ELSE b

\* update_temperature without the clamp to ambient
update_temperature_unclamped(ts, c, t, temp) ==
    IF IsActive(ts, t) THEN temp + HeatGeneration(c) ELSE temp - CoolingFactor

(* CPUCore.update_temperature *)
update_temperature(ts, c, t, temp) ==
    Max(AmbientFloor,
        IF IsActive(ts, t) THEN temp + HeatGeneration(c) ELSE temp - CoolingFactor)

(* CPUCore.tick on s = [tasks, current, temp, power], followed by the      *)
(* power accounting of run_simulation_tick line 94                         *)
CoreTick(s, c, draw) ==
    LET t == s.current[c]
        temp == update_temperature(s.tasks, c, t, s.temp[c])
        s1 == [s EXCEPT !.temp[c] = temp]
        s2 == IF t = 0 THEN s1
              ELSE IF is_finished(s.tasks[t]) THEN [s1 EXCEPT !.current[c] = 0]
              ELSE IF is_waiting_for_io(s.tasks[t]) THEN s1
              ELSE [s1 EXCEPT !.tasks[t] =
                        work(s.tasks[t], get_current_speed(c, temp), draw)]
    IN [s2 EXCEPT !.power = @ + get_current_power_draw(s2.tasks, c, s2.current[c])]

(* run_simulation_tick, lines 92-94: the loop over all_cores from core c on *)
RECURSIVE TickFrom(_, _, _, _)
TickFrom(s, c, n, draws) ==
    IF c > n THEN s
    ELSE TickFrom(CoreTick(s, c, draws[c]), c + 1, n, draws)

(* the draw of core c decides something: the core calls work on an         *)
(* I/O-bound task that is early enough in its run (MaxIoCycles)            *)
DrawMatters(c) ==
    LET t == current_task[c]
    IN /\ t # 0
       /\ ~is_finished(tasks[t])
       /\ ~is_waiting_for_io(tasks[t])
       /\ tasks[t].type = "I/O-Bound"
       /\ tasks[t].cycles_done < Cycles(MaxIoCycles)

(* the draws work can make on core c: randint(5, 10) is drawn only when   *)
(* randint(1, 100) came out below io_frequency (d is 0 when not drawn)     *)
NoEvent == [r |-> 100, d |-> 0]
DrawChoices(c) ==
    IF DrawMatters(c)
    THEN { [r |-> r, d |-> 0] :
              r \in {x \in RandDraws : x >= tasks[current_task[c]].io_frequency} }
         \cup
         { [r |-> p[1], d |-> p[2]] :
              p \in {x \in RandDraws : x < tasks[current_task[c]].io_frequency}
                      \X WaitTimes }
    ELSE {NoEvent}

(* the draws of one core phase, one per core of 1..n *)
RECURSIVE DrawSeqs(_)
DrawSeqs(n) ==
    IF n = 0 THEN {<<>>}
    ELSE {Append(ds, d) : ds \in DrawSeqs(n - 1), d \in DrawChoices(n)}

----------------------------------------------------------------------------
(* SoC.__init__ with its arguments drawn from the given sets *)
Constructed ==
    /\ master_task_list = generate_tasks(tasks)
    /\ task_queue = <<>>
    /\ completed_tasks = <<>>
    /\ current_task = [c \in Cores |-> 0]
    /\ temperature = [c \in Cores |-> StartTemperature]
    /\ current_tick = 0
    /\ total_power_consumed = 0
    /\ assign_log = <<>>
    /\ pc = "loop"

Construct(p_counts, e_counts, task_counts) ==
    /\ num_p_cores \in p_counts
    /\ num_e_cores \in e_counts
    /\ num_tasks \in task_counts
    /\ tasks \in [1..RangeLen(num_tasks) -> NewTasks(num_tasks)]
    /\ Constructed

(* the state after SoC(num_p_cores, num_e_cores, num_tasks) in main *)
Init == Construct(0..MaxPCores, 0..MaxECores, 0..MaxTasks)

(* the tick budget of the caller, by workload *)
TickBudget ==
    IF \A t \in 1..Len(tasks) : tasks[t].type = "CPU-Bound"
    THEN LongTicks ELSE MaxTicks

(* a caller of the step function: run_simulation_tick is callable any    *)
(* number of times; the model stops calling after TickBudget ticks       *)
Call ==
    /\ pc = "loop"
    /\ current_tick < TickBudget
    /\ pc' = "arrivals"
    /\ UNCHANGED <<num_p_cores, num_e_cores, num_tasks, tasks, master_task_list,
                   task_queue, completed_tasks, current_task, temperature,
                   current_tick, total_power_consumed, assign_log>>

(* main, line 19: the loop test holds (TickBudget stands for MAX_TICKS) *)
LoopEnter ==
    /\ pc = "loop"
    /\ Len(completed_tasks) < num_tasks /\ current_tick < TickBudget
    /\ pc' = "arrivals"
    /\ UNCHANGED <<num_p_cores, num_e_cores, num_tasks, tasks, master_task_list,
                   task_queue, completed_tasks, current_task, temperature,
                   current_tick, total_power_consumed, assign_log>>

(* main, line 19: the loop test fails; print_final_stats follows *)
LoopExit ==
    /\ pc = "loop"
    /\ ~(Len(completed_tasks) < num_tasks /\ current_tick < TickBudget)
    /\ pc' = "done"
    /\ UNCHANGED <<num_p_cores, num_e_cores, num_tasks, tasks, master_task_list,
                   task_queue, completed_tasks, current_task, temperature,
                   current_tick, total_power_consumed, assign_log>>

(* run_simulation_tick, step 1 *)
CheckForNewArrivals ==
    /\ pc = "arrivals"
    /\ LET k == ArrivedCount(tasks, master_task_list, current_tick)
       IN /\ task_queue' = task_queue \o SubSeq(master_task_list, 1, k)
          /\ master_task_list' =
                SubSeq(master_task_list, k + 1, Len(master_task_list))
    /\ pc' = "schedule"
    /\ UNCHANGED <<num_p_cores, num_e_cores, num_tasks, tasks, completed_tasks,
                   current_task, temperature, current_tick,
                   total_power_consumed, assign_log>>

(* run_simulation_tick, step 2 *)
ScheduleRuleBased ==
    /\ pc = "schedule"
    /\ LET s == schedule_rule_based(tasks,
                    [queue |-> task_queue, completed |-> completed_tasks,
                     current |-> current_task, log |-> <<>>], NumCores)
       IN /\ task_queue' = s.queue
          /\ completed_tasks' = s.completed
          /\ current_task' = s.current
          /\ assign_log' = s.log
    /\ pc' = "cores"
    /\ UNCHANGED <<num_p_cores, num_e_cores, num_tasks, tasks, master_task_list,
                   temperature, current_tick, total_power_consumed>>

(* run_simulation_tick, step 3 *)
TickCores ==
    /\ pc = "cores"
    /\ \E draws \in DrawSeqs(NumCores) :
         /\ LET s == TickFrom([tasks |-> tasks, current |-> current_task,
                               temp |-> temperature,
                               power |-> total_power_consumed],
                              1, NumCores, draws)
            IN /\ tasks' = s.tasks
               /\ current_task' = s.current
               /\ temperature' = s.temp
               /\ total_power_consumed' = s.power
    /\ pc' = "advance"
    /\ UNCHANGED <<num_p_cores, num_e_cores, num_tasks, master_task_list,
                   task_queue, completed_tasks, current_tick, assign_log>>

\* AdvanceTick that leaves current_tick as it is
AdvanceTick_stuck ==
    /\ pc = "advance"
    /\ pc' = "loop"
    /\ UNCHANGED <<num_p_cores, num_e_cores, num_tasks, tasks, master_task_list,
                   task_queue, completed_tasks, current_task, temperature,
                   current_tick, total_power_consumed, assign_log>>

(* run_simulation_tick, step 4 *)
AdvanceTick ==
    /\ pc = "advance"
    /\ current_tick' = current_tick + 1
    /\ pc' = "loop"
    /\ UNCHANGED <<num_p_cores, num_e_cores, num_tasks, tasks, master_task_list,
                   task_queue, completed_tasks, current_task, temperature,
                   total_power_consumed, assign_log>>

(* SoC driven by any caller of run_simulation_tick *)
Next ==
    \/ Call
    \/ CheckForNewArrivals
    \/ ScheduleRuleBased
    \/ TickCores
    \/ AdvanceTick

Spec == Init /\ [][Next]_vars

(* SoC driven by the loop of main *)
NextMain ==
    \/ LoopEnter
    \/ LoopExit
    \/ CheckForNewArrivals
    \/ ScheduleRuleBased
    \/ TickCores
    \/ AdvanceTick

SpecMain == Init /\ [][NextMain]_vars

(* SoC constructed with a negative count, then driven by any caller *)
InitInvalid ==
    /\ Construct(NegativeCounts \cup 0..MaxPCores, NegativeCounts \cup 0..MaxECores,
                 NegativeCounts \cup 0..MaxTasks)
    /\ (num_p_cores < 0 \/ num_e_cores < 0 \/ num_tasks < 0)

SpecInvalid == InitInvalid /\ [][Next]_vars

(* the end-to-end scenario: every task is forced to arrival_time 0,        *)
(* io_frequency 0 and total_cycles 10, and there is a core for every task  *)
ScenarioTotalCycles == {10}
ScenarioTasks ==
    [type : {"CPU-Bound", "I/O-Bound"}, total_cycles : {Cycles(tc) : tc \in ScenarioTotalCycles},
     io_frequency : {0}, arrival_time : {0}, cycles_done : {0}, io_wait_timer : {0}]

InitScenario ==
    /\ num_p_cores \in 0..MaxPCores
    /\ num_e_cores \in 0..MaxECores
    /\ num_tasks \in 1..MaxTasks
    /\ NumCores >= num_tasks
    /\ tasks \in [1..num_tasks -> ScenarioTasks]
    /\ Constructed

SpecScenario == InitScenario /\ [][NextMain]_vars

(* a caller that never stops calling run_simulation_tick *)
CallForever ==
    /\ pc = "loop"
    /\ pc' = "arrivals"
    /\ UNCHANGED <<num_p_cores, num_e_cores, num_tasks, tasks, master_task_list,
                   task_queue, completed_tasks, current_task, temperature,
                   current_tick, total_power_consumed, assign_log>>

(* run_simulation_tick, step 3, without the sum of line 94:               *)
(* total_power_consumed is written there and read by no step of the tick, *)
(* so an endless run is followed without it                               *)
TickCoresForever ==
    /\ pc = "cores"
    /\ \E draws \in DrawSeqs(NumCores) :
         /\ LET s == TickFrom([tasks |-> tasks, current |-> current_task,
                               temp |-> temperature,
                               power |-> total_power_consumed],
                              1, NumCores, draws)
            IN /\ tasks' = s.tasks
               /\ current_task' = s.current
               /\ temperature' = s.temp
    /\ pc' = "advance"
    /\ UNCHANGED <<num_p_cores, num_e_cores, num_tasks, master_task_list,
                   task_queue, completed_tasks, current_tick,
                   total_power_consumed, assign_log>>

(* run_simulation_tick, step 4, in an endless run: current_tick is read   *)
(* only by check_for_new_arrivals, against the arrival times of the tasks *)
(* still in master_task_list, so it is counted until that list is empty   *)
AdvanceTickForever ==
    /\ pc = "advance"
    /\ current_tick' = IF master_task_list = <<>> THEN current_tick
                       ELSE current_tick + 1
    /\ pc' = "loop"
    /\ UNCHANGED <<num_p_cores, num_e_cores, num_tasks, tasks, master_task_list,
                   task_queue, completed_tasks, current_task, temperature,
                   total_power_consumed, assign_log>>

(* SoC driven by a caller that invokes ticks indefinitely: every step of *)
(* a tick follows the one before it and the next call follows the tick   *)
NextForever ==
    \/ CallForever
    \/ CheckForNewArrivals
    \/ ScheduleRuleBased
    \/ TickCoresForever
    \/ AdvanceTickForever

SpecForever == Init /\ [][NextForever]_vars /\ WF_vars(NextForever)

TypeOK ==
    /\ pc \in {"loop", "arrivals", "schedule", "cores", "advance", "done"}
    /\ current_tick \in 0..TickBudget
    /\ \A c \in Cores : current_task[c] \in 0..Len(tasks)

----------------------------------------------------------------------------
(* Helpers of the properties *)

SeqToSet(q) == {q[i] : i \in 1..Len(q)}
TaskIds == 1..Len(tasks)
BoundCores == {c \in Cores : current_task[c] # 0}
BoundTasks == {current_task[c] : c \in BoundCores}
Count(q, t) == Cardinality({i \in 1..Len(q) : q[i] = t})

\* the number of places (master list, queue, cores, completed record) task t is in
Places(t) ==
    Count(master_task_list, t) + Count(task_queue, t)
      + Cardinality({c \in Cores : current_task[c] = t}) + Count(completed_tasks, t)

\* core c works on its task in the coming core phase
Computes(c) ==
    /\ current_task[c] # 0
    /\ ~is_finished(tasks[current_task[c]])
    /\ ~is_waiting_for_io(tasks[current_task[c]])

----------------------------------------------------------------------------
(* C1: task conservation. At every phase boundary of every tick each       *)
(* generated task is in exactly one of master_task_list, task_queue, one   *)
(* core's current_task, completed_tasks, so the four sizes add up to the   *)
(* number of generated tasks.                                              *)
C1_TaskConservation ==
    /\ \A t \in TaskIds : Places(t) = 1
    /\ Len(master_task_list) + Len(task_queue) + Cardinality(BoundCores)
         + Len(completed_tasks) = Len(tasks)

(* C2: no task's cycles_done ever exceeds its total_cycles. *)
C2_CyclesBounded ==
    \A t \in TaskIds : tasks[t].cycles_done <= tasks[t].total_cycles

(* C3: a bound task with io_wait_timer = d > 0 has io_wait_timer = d - 1   *)
(* after the core phase of the tick.                                       *)
C3_IoWaitCountsDown ==
    [][ pc = "cores" =>
          \A c \in Cores :
             (current_task[c] # 0 /\ tasks[current_task[c]].io_wait_timer > 0)
               => tasks'[current_task[c]].io_wait_timer
                    = tasks[current_task[c]].io_wait_timer - 1 ]_vars

(* C4: in the end-to-end scenario the driver loop stops with every task in *)
(* completed_tasks.                                                        *)
C4_ScenarioCompletes ==
    pc = "done" => Len(completed_tasks) = num_tasks

(* C5: every core's temperature is at least 25.0 in every state. *)
C5_TemperatureFloor ==
    \A c \in Cores : temperature[c] >= 250

\* an efficiency core whose task waits for I/O has cooled down to the floor
C5_CooledToFloor ==
    \E c \in Cores :
       /\ CoreType(c) = "E-core"
       /\ current_task[c] # 0
       /\ is_waiting_for_io(tasks[current_task[c]])
       /\ tasks[current_task[c]].cycles_done > 0
       /\ temperature[c] = 250

(* C6: every assignment of the latest schedule_rule_based gave the core    *)
(* the first task of its preferred type in the queue as the core found it, *)
(* whenever the queue held a task of that type.                            *)
C6_AssignmentAffinity ==
    \A i \in 1..Len(assign_log) :
       LET e == assign_log[i]
           pref == IF CoreType(e.core) = "P-core" THEN "CPU-Bound" ELSE "I/O-Bound"
           q == e.queue
       IN (\E j \in 1..Len(q) : tasks[q[j]].type = pref)
            => \E j \in 1..Len(q) :
                  /\ q[j] = e.task
                  /\ tasks[q[j]].type = pref
                  /\ \A k \in 1..(j - 1) : tasks[q[k]].type # pref

\* a performance core passed over the I/O-bound front of the queue
C6_PCoreSkipsFront ==
    \E i \in 1..Len(assign_log) :
       LET e == assign_log[i]
       IN /\ CoreType(e.core) = "P-core"
          /\ tasks[e.queue[1]].type = "I/O-Bound"
          /\ e.task # e.queue[1]
          /\ tasks[e.task].type = "CPU-Bound"
          /\ current_task[e.core] = e.task

ZeroCoresOrTasks == NumCores = 0 \/ Len(tasks) = 0

(* C7 as stated: with zero cores or zero tasks no step of the tick changes *)
(* anything but current_tick.                                              *)
C7_NoChangeBeyondTick ==
    [][ ZeroCoresOrTasks =>
          UNCHANGED <<master_task_list, task_queue, completed_tasks,
                      temperature, current_task, total_power_consumed>> ]_vars

(* C7 amended: with zero cores or zero tasks the tick advances current_tick*)
(* by 1 and leaves completed_tasks, the tasks and every core's temperature *)
(* and binding alone; with zero tasks the lists stay as they are and       *)
(* total_power_consumed grows by 0.1 per core; with zero cores             *)
(* total_power_consumed is unchanged and the arrived tasks move from the   *)
(* front of master_task_list to the back of task_queue.                    *)
C7_ZeroConfigTick ==
    [][ ZeroCoresOrTasks =>
          /\ UNCHANGED <<completed_tasks, temperature, current_task, tasks>>
          /\ current_tick' = IF pc = "advance" THEN current_tick + 1 ELSE current_tick
          /\ Len(tasks) = 0 =>
               /\ UNCHANGED <<master_task_list, task_queue>>
               /\ total_power_consumed' =
                    IF pc = "cores" THEN total_power_consumed + NumCores * 1
                    ELSE total_power_consumed
          /\ NumCores = 0 =>
               /\ UNCHANGED total_power_consumed
               /\ task_queue' \o master_task_list' = task_queue \o master_task_list
               /\ pc = "arrivals" =>
                    \A i \in 1..Len(master_task_list') :
                       tasks[master_task_list'[i]].arrival_time > current_tick
               /\ pc # "arrivals" => UNCHANGED <<master_task_list, task_queue>> ]_vars

\* ticks of a simulator with cores and no task have accumulated idle power
C7_IdleCoresDrewPower ==
    /\ Len(tasks) = 0
    /\ NumCores > 0
    /\ current_tick > 0
    /\ total_power_consumed = NumCores * current_tick

C8_ECoreThrottled ==
    \E c \in Cores :
       /\ CoreType(c) = "E-core"
       /\ temperature[c] >= 900
       /\ Computes(c)
       /\ tasks[current_task[c]].cycles_done % 2 = 1

C9_ExclusiveOccupancy ==
    /\ \A c1 \in BoundCores : \A c2 \in BoundCores :
          c1 # c2 => current_task[c1] # current_task[c2]
    /\ \A c \in BoundCores : current_task[c] \notin SeqToSet(task_queue)
    /\ \A i \in 1..Len(assign_log) : assign_log[i].previous = 0

\* a core was given a task while another task stayed in the queue
C9_AssignedWithQueueLeft ==
    /\ pc = "cores"
    /\ assign_log # <<>>
    /\ task_queue # <<>>
    /\ \A i \in 1..Len(assign_log) :
          current_task[assign_log[i].core] = assign_log[i].task

(* C10: a construction with a negative count ends in an error, not in a    *)
(* simulator.                                                              *)
C10_FailsFast ==
    (num_p_cores < 0 \/ num_e_cores < 0 \/ num_tasks < 0) => pc = "error"

(* C11: compute and I/O wait exclude each other in a tick: a task that was *)
(* waiting for I/O when the core phase began has the same cycles_done      *)
(* after it, and no core phase both raises a task's cycles_done and lowers *)
(* its io_wait_timer.                                                      *)
C11_ComputeXorWait ==
    [][ pc = "cores" =>
          \A t \in TaskIds :
             /\ tasks[t].io_wait_timer > 0
                  => tasks'[t].cycles_done = tasks[t].cycles_done
             /\ ~(/\ tasks'[t].cycles_done > tasks[t].cycles_done
                  /\ tasks'[t].io_wait_timer < tasks[t].io_wait_timer) ]_vars

\* a performance core has gone through a tick with its task waiting: it has
\* cooled by 0.4 since the task's one work step
C11_WaitedATick ==
    \E c \in Cores :
       /\ CoreType(c) = "P-core"
       /\ current_task[c] # 0
       /\ tasks[current_task[c]].io_wait_timer > 0
       /\ tasks[current_task[c]].cycles_done = 4
       /\ temperature[c] = 254

(* C12: every run_simulation_tick raises current_tick by exactly 1 (in its *)
(* last step), the loop of main never runs past its tick budget, and when  *)
(* it has stopped either every task is in completed_tasks or current_tick  *)
(* equals the budget.                                                      *)
C12_LoopTerminates ==
    /\ [](/\ current_tick <= TickBudget
          /\ pc = "done" =>
               (Len(completed_tasks) = num_tasks \/ current_tick = TickBudget))
    /\ [][ /\ current_tick' =
                IF pc = "advance" THEN current_tick + 1 ELSE current_tick
           /\ pc = "done" => UNCHANGED vars ]_vars

\* the loop has stopped at the budget with a task left unfinished
C12_StoppedAtBudget ==
    /\ pc = "done"
    /\ current_tick = TickBudget
    /\ Len(completed_tasks) < num_tasks

(* C13: when schedule_rule_based has returned, no core is bound to a       *)
(* finished task, whether or not the queue was empty.                      *)
C13_ReclaimAtSchedule ==
    pc = "cores" =>
       \A c \in BoundCores :
          tasks[current_task[c]].cycles_done < tasks[current_task[c]].total_cycles

C15_FifoFallback ==
    /\ \A i \in 1..Len(assign_log) :
          LET e == assign_log[i]
              pref == IF CoreType(e.core) = "P-core" THEN "CPU-Bound" ELSE "I/O-Bound"
          IN (\A j \in 1..Len(e.queue) : tasks[e.queue[j]].type # pref)
               => e.task = e.queue[1]
    /\ pc = "cores" =>
          ~(task_queue # <<>> /\ \E c \in Cores : current_task[c] = 0)

\* a performance core fell back to the I/O-bound front of a queue without a
\* CPU-bound task, and a task is still queued with every core busy
C15_FellBackWithQueueLeft ==
    /\ pc = "cores"
    /\ NumCores > 0
    /\ task_queue # <<>>
    /\ \E i \in 1..Len(assign_log) :
          LET e == assign_log[i]
          IN /\ CoreType(e.core) = "P-core"
             /\ \A j \in 1..Len(e.queue) : tasks[e.queue[j]].type = "I/O-Bound"
             /\ e.task = e.queue[1]
             /\ current_task[e.core] = e.task

\* the draw the claim gives core c in a state with tasks ts and bindings cur:
\* 4.0 or 1.0 with a bound task that does not wait for I/O, else 0.1 (tenths)
ClaimedDraw(ts, cur, c) ==
    IF cur[c] # 0 /\ ts[cur[c]].io_wait_timer = 0
    THEN (IF CoreType(c) = "P-core" THEN 40 ELSE 10)
    ELSE 1

RECURSIVE ClaimedDrawSum(_, _, _)
ClaimedDrawSum(ts, cur, n) ==
    IF n = 0 THEN 0 ELSE ClaimedDraw(ts, cur, n) + ClaimedDrawSum(ts, cur, n - 1)

(* C16: the core phase of every tick adds to total_power_consumed exactly  *)
(* the sum of the cores' draws, each read after the core's own tick: the   *)
(* type's active power with a bound task that is not waiting for I/O, 0.1  *)
(* otherwise; no other step changes total_power_consumed.                  *)
C16_PowerAccounting ==
    [][ total_power_consumed' =
          IF pc = "cores"
          THEN total_power_consumed + ClaimedDrawSum(tasks', current_task', NumCores)
          ELSE total_power_consumed ]_vars

\* one core has drawn idle power for its waiting task while the other core
\* has drawn active power, over two ticks and more
C16_WaitingAndActive ==
    /\ pc = "advance"
    /\ current_tick >= 2
    /\ \E c \in BoundCores : tasks[current_task[c]].io_wait_timer > 0
    /\ \E c \in BoundCores : tasks[current_task[c]].io_wait_timer = 0
    /\ total_power_consumed > 0

(* C17: a finished task (cycles_done >= total_cycles) is never changed by  *)
(* a later step, and the core phase of a core bound to a finished task     *)
(* clears the binding without working on the task (the temperature update  *)
(* at the start of CPUCore.tick runs as in every tick).                    *)
C17_FinishedIsImmutable ==
    [][ /\ \A t \in TaskIds :
              tasks[t].cycles_done >= tasks[t].total_cycles
                => /\ tasks'[t].cycles_done = tasks[t].cycles_done
                   /\ tasks'[t].io_wait_timer = tasks[t].io_wait_timer
        /\ pc = "cores" =>
              \A c \in BoundCores :
                 tasks[current_task[c]].cycles_done
                    >= tasks[current_task[c]].total_cycles
                   => current_task'[c] = 0 ]_vars

\* the core phase has released a finished task: it is finished and neither
\* bound nor in any list
C17_FinishedTaskReleased ==
    /\ pc = "advance"
    /\ \E t \in TaskIds :
          /\ tasks[t].cycles_done >= tasks[t].total_cycles
          /\ Places(t) = 0

\* the position of task t in the sequence q
Pos(q, t) == CHOOSE i \in 1..Len(q) : q[i] = t

(* C18: the assignments of one schedule_rule_based are made in all_cores   *)
(* order, performance cores first; each core chooses from the queue as the *)
(* core before it left it; and when it has returned no core that took a    *)
(* task comes after a core left without one.                               *)
C18_CoreOrderPriority ==
    /\ \A c1 \in Cores : \A c2 \in Cores :
          (c1 < c2 /\ CoreType(c2) = "P-core") => CoreType(c1) = "P-core"
    /\ \A i \in 1..Len(assign_log) : \A j \in 1..Len(assign_log) :
          i < j => assign_log[i].core < assign_log[j].core
    /\ \A i \in 1..(Len(assign_log) - 1) :
          LET before == assign_log[i].queue
              after == assign_log[i + 1].queue
          IN /\ SeqToSet(after) = SeqToSet(before) \ {assign_log[i].task}
             /\ Len(after) = Len(before) - 1
             /\ \A a \in 1..Len(after) : \A b \in 1..Len(after) :
                   a < b => Pos(before, after[a]) < Pos(before, after[b])
    /\ pc = "cores" =>
          \A i \in 1..Len(assign_log) : \A c \in Cores :
             c < assign_log[i].core => current_task[c] # 0

\* with both cores idle and one I/O-bound task queued, the performance core
\* took it and the efficiency core, which prefers it, was left idle
C18_PCoreTookTheOnlyTask ==
    /\ pc = "cores"
    /\ NumCores = 2
    /\ Len(assign_log) = 1
    /\ assign_log[1].core = 1
    /\ CoreType(1) = "P-core" /\ CoreType(2) = "E-core"
    /\ tasks[assign_log[1].task].type = "I/O-Bound"
    /\ current_task[1] = assign_log[1].task
    /\ current_task[2] = 0

(* C19: completed_tasks is sound and append-only: every task in it is      *)
(* finished, none is in it twice, it is never longer than the list of      *)
(* generated tasks, and every step keeps what it held as a prefix.         *)
C19_CompletedSoundAppendOnly ==
    /\ [](/\ \A i \in 1..Len(completed_tasks) :
                /\ completed_tasks[i] \in TaskIds
                /\ tasks[completed_tasks[i]].cycles_done
                      >= tasks[completed_tasks[i]].total_cycles
          /\ \A i \in 1..Len(completed_tasks) :
                \A j \in 1..Len(completed_tasks) :
                   completed_tasks[i] = completed_tasks[j] => i = j
          /\ Len(completed_tasks) <= Len(tasks))
    /\ [][ /\ Len(completed_tasks') >= Len(completed_tasks)
           /\ \A i \in 1..Len(completed_tasks) :
                 completed_tasks'[i] = completed_tasks[i] ]_vars

\* one task was reclaimed into completed_tasks while the other is at work
C19_OneCompletedOneBound ==
    /\ Len(completed_tasks) = 1
    /\ \E c \in BoundCores :
          /\ current_task[c] # completed_tasks[1]
          /\ tasks[current_task[c]].cycles_done > 0

(* C20: no task starves: with at least one core and ticks invoked without *)
(* end, every task that is in task_queue is eventually bound to a core.   *)
C20_NoStarvation ==
    \A t \in 1..MaxTasks :
       (NumCores >= 1 /\ t \in TaskIds /\ t \in SeqToSet(task_queue))
          ~> (\E c \in Cores : current_task[c] = t)

====
